---- MODULE Spec2Model ----
(***************************************************************************)
(* A model of the docker orchestration engine of longhorn-orc              *)
(* (orch/docker/docker.go): the volume operations on the metadata store,   *)
(* the public instance-lifecycle operations, the Scheduler hand-off and    *)
(* the local executor ProcessSchedule with its five action handlers.       *)
(*                                                                         *)
(* Every handler is a pure operator that is computed as the Go code        *)
(* computes it; the outcome of each call to a collaborator (etcd, docker,  *)
(* the readiness probes, the scheduler's placement) is an input drawn by   *)
(* the action that applies the handler.                                    *)
(***************************************************************************)
EXTENDS Naturals, Sequences, FiniteSets, TLC

VARIABLES
    store,       \* etcd: volume name -> VolumeInfo, or Nil when no key
    clock,       \* the wall clock read by time.Now()
    containers,  \* docker: container ID -> container
    nextId,      \* docker: number of the next container ID it hands out
    last,        \* the most recent completed public call and its effects
    pc,          \* concurrent callers: position of each caller
    req,         \* concurrent callers: the call each caller makes
    loc,         \* concurrent callers: the caller's local variables
    writes,      \* concurrent callers: the callers whose setVolume took
                 \* effect, in the order of their writes
    identity     \* this machine's identity: the UUID file, the Host records
                 \* published to etcd, the process's currentHost

vars == <<store, clock, containers, nextId, last, pc, req, loc, writes, identity>>

----------------------------------------------------------------------------
(* Bounds of the model *)

MaxClock == 2
MaxContainers == 2
NumProcs == 2
MaxUUIDs == 3

----------------------------------------------------------------------------
(* Values *)

\* A nil pointer.
Nil == [nil |-> TRUE]

\* A nil error; an error is the chain of its messages, outermost first.
NoErr == <<>>

\* fmt.Errorf / errors.Errorf: a new error.
Errorf(msg) == <<msg>>

\* errors.Wrap / errors.Wrapf of github.com/pkg/errors: nil stays nil.
Wrap(err, msg) == IF err = NoErr THEN NoErr ELSE <<msg>> \o err

\* The innermost message of an error.
Cause(err) == err[Len(err)]

OrcName == "docker"

InstanceTypeNone == ""
InstanceTypeController == "controller"
InstanceTypeReplica == "replica"

ScheduleActionCreateController == "create-controller"
ScheduleActionCreateReplica == "create-replica"
ScheduleActionStartInstance == "start-instance"
ScheduleActionStopInstance == "stop-instance"
ScheduleActionDeleteInstance == "delete-instance"

\* time.Time{}: the zero timestamp of a replica never marked bad.
ZeroTime == 0

VolNames == {"v1"}
ReplicaNames == {"r1", "r2"}
Images == {"img"}
Sizes == {0, 1}

ReplicaInfo(name, ts) == [Name |-> name, Address |-> "10.0.1." \o name, BadTimestamp |-> ts]

\* The Replicas maps callers pass in: none, one replica, two replicas.
ReplicaMaps ==
    { [r \in R |-> ReplicaInfo(r, ZeroTime)] : R \in {{}, {"r1"}, {"r1", "r2"}} }

VolumeInfo(name, size, image, replicas) ==
    [Name |-> name, Size |-> size, LonghornImage |-> image, Replicas |-> replicas]

\* The volumes callers pass to CreateVolume and UpdateVolume.
VolumeInputs ==
    { VolumeInfo(n, s, i, m) : n \in VolNames, s \in Sizes, i \in Images, m \in ReplicaMaps }

----------------------------------------------------------------------------
(* The metadata store (etcd.go of the same package: getVolume, setVolume,  *)
(* rmVolume).  A lookup either fails or yields what is stored; for a name  *)
(* with no key this is an error or an empty result.                        *)

getVolume(st, volumeName, fail) ==
    IF fail
    THEN [v |-> Nil, err |-> Errorf("unable to get volume")]
    ELSE [v |-> st[volumeName], err |-> NoErr]

setVolume(st, volume, fail) ==
    IF fail
    THEN [st |-> st, err |-> Errorf("unable to set volume")]
    ELSE [st |-> [st EXCEPT ![volume.Name] = volume], err |-> NoErr]

rmVolume(st, volumeName, fail) ==
    IF fail
    THEN [st |-> st, err |-> Errorf("unable to remove volume")]
    ELSE [st |-> [st EXCEPT ![volumeName] = Nil], err |-> NoErr]

----------------------------------------------------------------------------
(* Volume operations *)

\* CreateVolume, line 189: the lookup found the volume.
CreateVolumeExists(g) == g.err = NoErr /\ g.v # Nil

\* A create that persists the record without its replicas.
CreateVolumeSetNoReplicas(st, volume, sf) ==
    LET s == setVolume(st, [volume EXCEPT !.Replicas = <<>>], sf) IN
    IF s.err # NoErr
    THEN [st |-> s.st, val |-> Nil, err |-> Wrap(s.err, "fail to create new volume metadata")]
    ELSE [st |-> s.st, val |-> volume, err |-> NoErr]

\* CreateVolume, lines 192-195: persist the record and return it.
CreateVolumeSet(st, volume, sf) ==
    LET s == setVolume(st, volume, sf) IN
    IF s.err # NoErr
    THEN [st |-> s.st, val |-> Nil, err |-> Wrap(s.err, "fail to create new volume metadata")]
    ELSE [st |-> s.st, val |-> volume, err |-> NoErr]

CreateVolume(st, volume, gf, sf) ==
    LET g == getVolume(st, volume.Name, gf) IN
    IF CreateVolumeExists(g)
    THEN [st |-> st, val |-> Nil, err |-> Errorf("volume already exists")]
    ELSE CreateVolumeSet(st, volume, sf)

DeleteVolume(st, volumeName, fail) == rmVolume(st, volumeName, fail)

GetVolume(st, volumeName, fail) == getVolume(st, volumeName, fail)

\* UpdateVolume, line 209: the lookup failed.
UpdateVolumeMissing(g) == g.err # NoErr

\* A field-wise update: only Size is written over the stored record.
UpdateVolumeSetFieldwise(st, volume, sf) ==
    IF st[volume.Name] = Nil
    THEN setVolume(st, volume, sf)
    ELSE setVolume(st, [st[volume.Name] EXCEPT !.Size = volume.Size], sf)

\* UpdateVolume, line 212: the whole input record is written.
UpdateVolumeSet(st, volume, sf) == setVolume(st, volume, sf)

UpdateVolume(st, volume, gf, sf) ==
    LET g == getVolume(st, volume.Name, gf) IN
    IF UpdateVolumeMissing(g)
    THEN [st |-> st, err |-> Errorf("cannot update volume because it doesn't exists")]
    ELSE UpdateVolumeSet(st, volume, sf)

\* MarkBadReplica, lines 224-230: the keys of the entries named replica.Name;
\* the range loop stamps the first one it meets.
MarkTargets(v, replica) ==
    { k \in DOMAIN v.Replicas : v.Replicas[k].Name = replica.Name }

\* A stamp that reaches every entry of the volume.
MarkStampAll(v, k, now) ==
    [v EXCEPT !.Replicas = [x \in DOMAIN @ |-> [@[x] EXCEPT !.BadTimestamp = now]]]

\* MarkBadReplica, lines 226-227: entry k stamped with the current time.
MarkStamp(v, k, now) ==
    [v EXCEPT !.Replicas = [@ EXCEPT ![k] = [@ EXCEPT !.BadTimestamp = now]]]

\* A loop that adds the replica, stamped, when no entry is named as it is.
MarkLoopAdd(v, replica, k, now) ==
    IF k \in MarkTargets(v, replica)
    THEN MarkStamp(v, k, now)
    ELSE [v EXCEPT !.Replicas =
             [x \in DOMAIN v.Replicas \cup {replica.Name} |->
                 IF x \in DOMAIN v.Replicas
                 THEN v.Replicas[x]
                 ELSE [replica EXCEPT !.BadTimestamp = now]]]

\* MarkBadReplica, lines 224-230, with k the entry the loop met first (any key
\* when no entry matches).
MarkLoop(v, replica, k, now) ==
    IF k \in MarkTargets(v, replica) THEN MarkStamp(v, k, now) ELSE v

\* out is "ok", "err", or "panic" for a nil pointer dereference.
MarkBadReplica(st, volumeName, replica, k, now, gf, gf2, sf) ==
    LET g == getVolume(st, volumeName, gf) IN
    IF g.err # NoErr
    THEN [st |-> st, panic |-> FALSE,
          err |-> Wrap(g.err, "fail to mark bad replica, cannot get volume")]
    ELSE IF g.v = Nil
    THEN [st |-> st, panic |-> TRUE, err |-> NoErr]
    ELSE LET u == UpdateVolume(st, MarkLoop(g.v, replica, k, now), gf2, sf) IN
         [st |-> u.st, panic |-> FALSE,
          err |-> Wrap(u.err, "fail to mark bad replica, cannot update volume")]

----------------------------------------------------------------------------
(* The host identity: the UUID file under cfgDirectory, the Host records   *)
(* in etcd (setHost, etcd.go of the same package) and the process's        *)
(* currentHost.  h is the identity state: file the UUID file (whether it   *)
(* exists, and its content), next the number of the next UUID              *)
(* util.UUID() generates, published the Host records in etcd, current the  *)
(* process's currentHost.                                                  *)

\* util.UUID(): a UUID never generated before.
UUID(n) == "h" \o ToString(n)

HostName == "node1"
Addresses == {"10.0.0.1", "10.0.0.2"}

\* The UUID file.
NoFile == [exists |-> FALSE, data |-> ""]
File(data) == [exists |-> TRUE, data |-> data]

HostInfo(uuid, name, address) == [UUID |-> uuid, Name |-> name, Address |-> address]

\* ioutil.ReadFile(hostUUIDFile), line 134: fails when there is no file, and
\* may fail when there is one.
ReadFile(h, fail) ==
    IF ~h.file.exists \/ fail
    THEN [data |-> "", err |-> Errorf("read failed")]
    ELSE [data |-> h.file.data, err |-> NoErr]

\* getCurrentHost, lines 140-148: a new UUID, written to the file.
GenerateHost(h, address, mkdirFail, writeFail) ==
    LET uuid == UUID(h.next)
        g == [h EXCEPT !.next = @ + 1]
    IN  IF mkdirFail
        THEN [h |-> g, host |-> Nil, err |-> Errorf("Fail to create configuration directory")]
        ELSE IF writeFail
        THEN [h |-> g, host |-> Nil, err |-> Errorf("Fail to write host uuid file")]
        ELSE [h |-> [g EXCEPT !.file = File(uuid)], host |-> HostInfo(uuid, HostName, address),
              err |-> NoErr]

\* getCurrentHost, lines 123-149.
getCurrentHost(h, address, hostnameFail, readFail, mkdirFail, writeFail) ==
    IF hostnameFail
    THEN [h |-> h, host |-> Nil, err |-> Errorf("hostname failed")]
    ELSE LET f == ReadFile(h, readFail) IN
         IF f.err = NoErr
         THEN [h |-> h, host |-> HostInfo(f.data, HostName, address), err |-> NoErr]
         ELSE GenerateHost(h, address, mkdirFail, writeFail)

\* setHost: the record is stored under the host's UUID.
setHost(h, hostInfo, fail) ==
    IF fail
    THEN [h |-> h, err |-> Errorf("unable to set host")]
    ELSE [h |-> [h EXCEPT !.published =
                     { x \in @ : x.UUID # hostInfo.UUID } \cup {hostInfo}],
          err |-> NoErr]

\* Register, lines 151-162.
Register(h, address, hostnameFail, readFail, mkdirFail, writeFail, setFail) ==
    LET c == getCurrentHost(h, address, hostnameFail, readFail, mkdirFail, writeFail) IN
    IF c.err # NoErr
    THEN [h |-> c.h, err |-> c.err]
    ELSE LET s == setHost(c.h, c.host, setFail) IN
         IF s.err # NoErr
         THEN [h |-> s.h, err |-> s.err]
         ELSE [h |-> [s.h EXCEPT !.current = c.host], err |-> NoErr]

\* GetCurrentHostID, lines 172-174.
GetCurrentHostID(h) == h.current.UUID

\* A machine that has never run the engine.
NoHost == [file |-> NoFile, next |-> 1, published |-> {}, current |-> Nil]

\* The identity after NewDockerOrchestrator registered on a new machine.
RegisteredHost ==
    Register(NoHost, "10.0.0.1", FALSE, FALSE, FALSE, FALSE, FALSE).h

----------------------------------------------------------------------------
(* The container runtime (docker) and the readiness probes.  rt is the      *)
(* runtime as one handler sees it: c the containers, n the number of the   *)
(* next ID, calls the calls made so far, each with its outcome.            *)

CurrentHostID == "h1"
Hosts == {"h1", "h2"}

ContainerID(n) == "id" \o ToString(n)
IPAddress(n) == "10.0.0." \o ToString(n)
CIDs == { ContainerID(n) : n \in 1..MaxContainers }

NoContainer == [present |-> FALSE, name |-> "", ip |-> "", running |-> FALSE]

Exists(rt, id) == id \in DOMAIN rt.c /\ rt.c[id].present

\* The call log: the call, the container (or URL, or path) it was about, its
\* outcome, and its detail: the command line given to a create, the state an
\* inspect reported.
LoggedDetail(rt, op, id, ok, detail) ==
    [rt EXCEPT !.calls = Append(@, [op |-> op, id |-> id, ok |-> ok, detail |-> detail])]

Logged(rt, op, id, ok) == LoggedDetail(rt, op, id, ok, <<>>)

\* ContainerCreate (lines 337, 434): a new container, not yet running.
RtCreate(rt, name, cmd, ok) ==
    IF ok /\ rt.n <= MaxContainers
    THEN LET id == ContainerID(rt.n) IN
         [rt |-> LoggedDetail([rt EXCEPT !.c[id] = [present |-> TRUE, name |-> name,
                                                 ip |-> IPAddress(rt.n), running |-> FALSE],
                                      !.n = @ + 1], "create", id, TRUE, cmd),
          id |-> id, err |-> NoErr]
    ELSE [rt |-> LoggedDetail(rt, "create", "", FALSE, cmd), id |-> "",
          err |-> Errorf("docker: create failed")]

\* ContainerStart (line 500); the started process is still running, or has
\* already exited, when the call returns.
RtStart(rt, id, ok, running) ==
    IF ok /\ Exists(rt, id)
    THEN [rt |-> Logged([rt EXCEPT !.c[id].running = running], "start", id, TRUE), err |-> NoErr]
    ELSE [rt |-> Logged(rt, "start", id, FALSE), err |-> Errorf("docker: start failed")]

\* ContainerStop (line 530).
RtStop(rt, id, ok) ==
    IF ok /\ Exists(rt, id)
    THEN [rt |-> Logged([rt EXCEPT !.c[id].running = FALSE], "stop", id, TRUE), err |-> NoErr]
    ELSE [rt |-> Logged(rt, "stop", id, FALSE), err |-> Errorf("docker: stop failed")]

\* ContainerRemove (line 560).
RtRemove(rt, id, ok) ==
    IF ok /\ Exists(rt, id)
    THEN [rt |-> Logged([rt EXCEPT !.c[id] = NoContainer], "remove", id, TRUE), err |-> NoErr]
    ELSE [rt |-> Logged(rt, "remove", id, FALSE), err |-> Errorf("docker: remove failed")]

\* ContainerInspect (line 461); docker reports the name with a leading slash.
RtInspect(rt, id, ok) ==
    IF ok /\ Exists(rt, id)
    THEN LET info == [ID |-> id, Name |-> "/" \o rt.c[id].name,
                      IPAddress |-> rt.c[id].ip, Running |-> rt.c[id].running]
         IN  [rt |-> LoggedDetail(rt, "inspect", id, TRUE, info), err |-> NoErr, info |-> info]
    ELSE [rt |-> Logged(rt, "inspect", id, FALSE), err |-> Errorf("docker: inspect failed"),
          info |-> Nil]

\* util.WaitForAPI (line 363): the URL answered within the timeout, or not.
WaitForAPI(rt, url, ok) ==
    [rt |-> Logged(rt, "waitAPI", url, ok),
     err |-> IF ok THEN NoErr ELSE Errorf("timeout waiting for api")]

\* util.WaitForDevice (line 367): the device appeared within the timeout, or not.
WaitForDevice(rt, dev, ok) ==
    [rt |-> Logged(rt, "waitDevice", dev, ok),
     err |-> IF ok THEN NoErr ELSE Errorf("timeout waiting for device")]

\* strings.TrimPrefix
TrimPrefix(s, prefix) ==
    IF Len(s) >= Len(prefix) /\ SubSeq(s, 1, Len(prefix)) = prefix
    THEN SubSeq(s, Len(prefix) + 1, Len(s))
    ELSE s

----------------------------------------------------------------------------
(* The schedule payload *)

EmptyBytes == [kind |-> "empty"]
GarbageBytes == [kind |-> "garbage"]

\* The zero dockerScheduleData.
ZeroData ==
    [InstanceName |-> "", VolumeName |-> "", VolumeSize |-> "", LonghornImage |-> "",
     ReplicaAddresses |-> <<>>]

\* json.Marshal of a dockerScheduleData: a JSON object of its fields.
Marshal(data) == [kind |-> "object", obj |-> data]

\* json.Unmarshal into a dockerScheduleData.
Unmarshal(bytes) ==
    IF bytes.kind = "object"
    THEN [data |-> bytes.obj, err |-> NoErr]
    ELSE [data |-> ZeroData, err |-> Errorf("json: invalid character")]

\* strconv.FormatInt(n, 10)
FormatInt(n) == ToString(n)

----------------------------------------------------------------------------
(* The action handlers.  e holds the outcome of each collaborator call the *)
(* handler makes.  A handler yields the runtime it leaves, the instance    *)
(* it returns (Nil for nil) and its error.                                 *)

generateInstanceInfo(rt, e, instanceID, instanceType) ==
    LET i == RtInspect(rt, instanceID, e.inspect) IN
    IF i.err # NoErr
    THEN [rt |-> i.rt, inst |-> Nil, err |-> Wrap(i.err, "fail to inspect replica container")]
    ELSE [rt |-> i.rt, err |-> NoErr,
          inst |-> [ID |-> i.info.ID, Type |-> instanceType,
                    Name |-> TrimPrefix(i.info.Name, "/"), HostID |-> CurrentHostID,
                    Address |-> i.info.IPAddress, Running |-> i.info.Running]]

startInstance(rt, e, instanceID, instanceType) ==
    LET s == RtStart(rt, instanceID, e.start, e.running) IN
    IF s.err # NoErr
    THEN [rt |-> s.rt, inst |-> Nil, err |-> Wrap(s.err, "fail to start instance")]
    ELSE generateInstanceInfo(s.rt, e, instanceID, instanceType)

stopInstance(rt, e, instanceID, instanceType) ==
    LET s == RtStop(rt, instanceID, e.stop) IN
    IF s.err # NoErr
    THEN [rt |-> s.rt, inst |-> Nil, err |-> Wrap(s.err, "fail to start instance")]
    ELSE generateInstanceInfo(s.rt, e, instanceID, instanceType)

removeInstance(rt, e, instanceID, instanceType) ==
    LET r == RtRemove(rt, instanceID, e.remove) IN
    IF r.err # NoErr
    THEN [rt |-> r.rt, inst |-> Nil, err |-> Wrap(r.err, "Fail to remove instance")]
    ELSE [rt |-> r.rt, err |-> NoErr,
          inst |-> [ID |-> instanceID, Type |-> instanceType, Name |-> "", HostID |-> "",
                    Address |-> "", Running |-> FALSE]]

\* The elements of a path: what stands between its slashes, from place i on,
\* cur being the element under way and acc the elements before it.
RECURSIVE SplitPath(_, _, _, _)
SplitPath(path, i, cur, acc) ==
    IF i > Len(path)
    THEN Append(acc, cur)
    ELSE IF SubSeq(path, i, i) = "/"
    THEN SplitPath(path, i + 1, "", Append(acc, cur))
    ELSE SplitPath(path, i + 1, cur \o SubSeq(path, i, i), acc)

\* filepath.Clean on the elements of a rooted path: empty elements and "."
\* go, ".." takes the element before it, and at the root goes.
RECURSIVE CleanElements(_, _)
CleanElements(elements, acc) ==
    IF elements = <<>>
    THEN acc
    ELSE LET x == Head(elements) IN
         CleanElements(Tail(elements),
                       IF x \in {"", "."} THEN acc
                       ELSE IF x = ".."
                       THEN (IF acc = <<>> THEN acc ELSE SubSeq(acc, 1, Len(acc) - 1))
                       ELSE Append(acc, x))

RECURSIVE JoinPath(_)
JoinPath(elements) ==
    IF elements = <<>> THEN "" ELSE "/" \o Head(elements) \o JoinPath(Tail(elements))

\* filepath.Clean of a rooted path.
Clean(path) ==
    LET elements == CleanElements(SplitPath(path, 1, "", <<>>), <<>>) IN
    IF elements = <<>> THEN "/" ELSE JoinPath(elements)

\* getDeviceName, lines 374-376: filepath.Join leaves out an empty element,
\* puts a slash between the others and cleans the result.
getDeviceName(volumeName) ==
    Clean(IF volumeName = "" THEN "/dev/longhorn/" ELSE "/dev/longhorn/" \o "/" \o volumeName)

RECURSIVE ReplicaFlags(_)
\* createController, lines 332-334: a --replica flag for every address.
ReplicaFlags(addresses) ==
    IF addresses = <<>> THEN <<>>
    ELSE <<"--replica", Head(addresses)>> \o ReplicaFlags(Tail(addresses))

\* createController, lines 327-335.
ControllerCmd(data) ==
    <<"launch", "controller", "--listen", "0.0.0.0:9501", "--frontend", "tgt">>
        \o ReplicaFlags(data.ReplicaAddresses) \o <<data.VolumeName>>

\* createReplica, lines 428-433.
ReplicaCmd(data) ==
    <<"launch", "replica", "--listen", "0.0.0.0:9502", "--size", data.VolumeSize, "/volume">>

\* The start step without the cleanup: the created container is left behind.
StartNoCleanup(rt, e, id, instanceType, msg) ==
    LET s == startInstance(rt, e, id, instanceType) IN
    IF s.err # NoErr
    THEN [rt |-> s.rt, inst |-> Nil, err |-> Wrap(s.err, msg)]
    ELSE s

\* A cleanup whose own failure is returned in place of the start failure.
StartOrCleanupMasked(rt, e, id, instanceType, msg) ==
    LET s == startInstance(rt, e, id, instanceType) IN
    IF s.err # NoErr
    THEN LET r == removeInstance(s.rt, e, id, instanceType) IN
         [rt |-> r.rt, inst |-> Nil,
          err |-> IF r.err # NoErr THEN Wrap(r.err, msg) ELSE Wrap(s.err, msg)]
    ELSE s

\* createController, lines 352-357, and createReplica, lines 451-456: the start
\* step, with the cleanup of the created container when it fails.
StartOrCleanup(rt, e, id, instanceType, msg) ==
    LET s == startInstance(rt, e, id, instanceType) IN
    IF s.err # NoErr
    THEN LET r == removeInstance(s.rt, e, id, instanceType) IN
         [rt |-> r.rt, inst |-> Nil, err |-> Wrap(s.err, msg)]
    ELSE s

\* createController, lines 359-365: the address rewrite and the wait for the
\* API at the rewritten address.
waitAPI(rt, inst, ok) ==
    LET instance == [inst EXCEPT !.Address = "http://" \o @ \o ":9501"]
        url == instance.Address \o "/v1"
        a == WaitForAPI(rt, url, ok)
    IN  IF a.err # NoErr
        THEN [rt |-> a.rt, inst |-> Nil, err |-> Wrap(a.err, "fail to wait for api endpoint")]
        ELSE [rt |-> a.rt, inst |-> instance, err |-> NoErr]

\* A device wait with a rollback: a timeout removes the container, as a start
\* failure does.
waitDeviceRollback(rt, instance, data, ok) ==
    LET d == WaitForDevice(rt, getDeviceName(data.VolumeName), ok) IN
    IF d.err # NoErr
    THEN [rt |-> removeInstance(d.rt, [remove |-> TRUE], instance.ID, instance.Type).rt,
          inst |-> Nil, err |-> Wrap(d.err, "fail to wait for device")]
    ELSE [rt |-> d.rt, inst |-> instance, err |-> NoErr]

\* createController, lines 367-371: the wait for the volume's device.
waitDevice(rt, instance, data, ok) ==
    LET d == WaitForDevice(rt, getDeviceName(data.VolumeName), ok) IN
    IF d.err # NoErr
    THEN [rt |-> d.rt, inst |-> Nil, err |-> Wrap(d.err, "fail to wait for device")]
    ELSE [rt |-> d.rt, inst |-> instance, err |-> NoErr]

\* Waits without a barrier between them: the device wait is made whatever the
\* API wait yields, and alone decides the result.
WaitReadyNoBarrier(rt, e, inst, data) ==
    LET instance == [inst EXCEPT !.Address = "http://" \o @ \o ":9501"]
        a == WaitForAPI(rt, instance.Address \o "/v1", e.api)
        d == WaitForDevice(a.rt, getDeviceName(data.VolumeName), e.device)
    IN  IF d.err # NoErr
        THEN [rt |-> d.rt, inst |-> Nil, err |-> Wrap(d.err, "fail to wait for device")]
        ELSE [rt |-> d.rt, inst |-> instance, err |-> NoErr]

\* createController, lines 359-371: the address rewrite and the two waits.
WaitReady(rt, e, inst, data) ==
    LET a == waitAPI(rt, inst, e.api) IN
    IF a.err # NoErr THEN a ELSE waitDevice(a.rt, a.inst, data, e.device)

createController(rt, e, data) ==
    LET c == RtCreate(rt, data.InstanceName, ControllerCmd(data), e.create) IN
    IF c.err # NoErr
    THEN [rt |-> c.rt, inst |-> Nil, err |-> Wrap(c.err, "fail to create controller container")]
    ELSE LET s == StartOrCleanup(c.rt, e, c.id, InstanceTypeController,
                                 "fail to start controller container") IN
         IF s.err # NoErr THEN s ELSE WaitReady(s.rt, e, s.inst, data)

createReplica(rt, e, data) ==
    LET c == RtCreate(rt, data.InstanceName, ReplicaCmd(data), e.create) IN
    IF c.err # NoErr
    THEN [rt |-> c.rt, inst |-> Nil, err |-> Wrap(c.err, "fail to create replica container")]
    ELSE StartOrCleanup(c.rt, e, c.id, InstanceTypeReplica, "fail to start replica container")

----------------------------------------------------------------------------
(* ProcessSchedule, the local executor, and the Scheduler that routes to it *)

KnownActions ==
    {ScheduleActionCreateController, ScheduleActionCreateReplica, ScheduleActionStartInstance,
     ScheduleActionStopInstance, ScheduleActionDeleteInstance}

\* The handler a request ended in, with the result of the handler.
Handled(h, handler) == [rt |-> h.rt, inst |-> h.inst, err |-> h.err, handler |-> handler]

\* A request refused before any handler ran.
Refused(rt, err) == [rt |-> rt, inst |-> Nil, err |-> err, handler |-> ""]

\* The switch with the stop case calling the start handler.
DispatchStopStarts(rt, e, item, data) ==
    CASE item.Action = ScheduleActionCreateController ->
            Handled(createController(rt, e, data), "createController")
      [] item.Action = ScheduleActionCreateReplica ->
            Handled(createReplica(rt, e, data), "createReplica")
      [] item.Action \in {ScheduleActionStartInstance, ScheduleActionStopInstance} ->
            Handled(startInstance(rt, e, item.Instance.ID, item.Instance.Type), "startInstance")
      [] item.Action = ScheduleActionDeleteInstance ->
            Handled(removeInstance(rt, e, item.Instance.ID, item.Instance.Type), "removeInstance")
      [] OTHER -> Refused(rt, Errorf("Cannot find specified action"))

\* ProcessSchedule, lines 259-271: the switch on the action.
Dispatch(rt, e, item, data) ==
    CASE item.Action = ScheduleActionCreateController ->
            Handled(createController(rt, e, data), "createController")
      [] item.Action = ScheduleActionCreateReplica ->
            Handled(createReplica(rt, e, data), "createReplica")
      [] item.Action = ScheduleActionStartInstance ->
            Handled(startInstance(rt, e, item.Instance.ID, item.Instance.Type), "startInstance")
      [] item.Action = ScheduleActionStopInstance ->
            Handled(stopInstance(rt, e, item.Instance.ID, item.Instance.Type), "stopInstance")
      [] item.Action = ScheduleActionDeleteInstance ->
            Handled(removeInstance(rt, e, item.Instance.ID, item.Instance.Type), "removeInstance")
      [] OTHER -> Refused(rt, Errorf("Cannot find specified action"))

\* ProcessSchedule, lines 248-258: the checks before the switch, and the
\* payload they yield.
ProcessScheduleChecks(item) ==
    IF item.Data.Orchestrator # OrcName
    THEN [data |-> ZeroData, err |-> Errorf("received request for the wrong orchestrator")]
    ELSE LET u == IF item.Data.Data # EmptyBytes
                  THEN Unmarshal(item.Data.Data)
                  ELSE [data |-> ZeroData, err |-> NoErr]
         IN  IF u.err # NoErr
             THEN [data |-> ZeroData, err |-> Wrap(u.err, "fail to parse schedule data")]
             ELSE IF item.Instance.ID = ""
             THEN [data |-> ZeroData, err |-> Errorf("empty instance ID")]
             ELSE u

ProcessSchedule(rt, e, item) ==
    LET c == ProcessScheduleChecks(item) IN
    IF c.err # NoErr THEN Refused(rt, c.err) ELSE Dispatch(rt, e, item, c.data)

\* Where the Scheduler sends a request: to the host the request names, or,
\* when it names none, to the host its policy picks; what a remote host
\* answers is that host's business.
Placements == {[host |-> "h1", remoteOK |-> TRUE], [host |-> "h2", remoteOK |-> TRUE],
               [host |-> "h2", remoteOK |-> FALSE]}

RemoteInstance(item, host) ==
    [ID |-> item.Instance.ID, Type |-> item.Instance.Type, Name |-> item.Instance.ID,
     HostID |-> host, Address |-> "10.0.9.9", Running |-> TRUE]

\* The host the Scheduler routes a request to: the one the request names, or
\* the one it picks.
ScheduleTarget(item, place) ==
    IF item.Instance.HostID = "" THEN place.host ELSE item.Instance.HostID

\* Scheduler.Schedule: the request as the Scheduler received it, and the result
\* of ProcessSchedule on the host it was routed to.
Schedule(rt, e, item, place) ==
    LET target == ScheduleTarget(item, place)
        routed == [item EXCEPT !.Instance.HostID = target]
    IN  IF target = CurrentHostID
        THEN LET r == ProcessSchedule(rt, e, routed) IN
             [rt |-> r.rt, inst |-> r.inst, err |-> r.err, handler |-> r.handler,
              sched |-> <<item>>]
        ELSE IF place.remoteOK
        THEN [rt |-> rt, inst |-> RemoteInstance(item, target), err |-> NoErr,
              handler |-> "remote", sched |-> <<item>>]
        ELSE [rt |-> rt, inst |-> Nil, err |-> Errorf("remote schedule failed"),
              handler |-> "remote", sched |-> <<item>>]

----------------------------------------------------------------------------
(* Public instance operations.  Each yields the runtime it leaves, the     *)
(* value and error it returns, whether it died of a nil dereference, the   *)
(* requests it handed to the Scheduler and the handler that ran locally.   *)

Returned(rt, val, err) ==
    [rt |-> rt, val |-> val, err |-> err, panic |-> FALSE, sched |-> <<>>, handler |-> ""]

Panicked(rt) ==
    [rt |-> rt, val |-> Nil, err |-> NoErr, panic |-> TRUE, sched |-> <<>>, handler |-> ""]

\* The result of a public operation that went through the Scheduler (lines
\* 288-294 and alike): the error wrapped, or the instance.
Scheduled(s, msg) ==
    IF s.err # NoErr
    THEN [rt |-> s.rt, val |-> Nil, err |-> Wrap(s.err, msg), panic |-> FALSE,
          sched |-> s.sched, handler |-> s.handler]
    ELSE [rt |-> s.rt, val |-> s.inst, err |-> NoErr, panic |-> FALSE,
          sched |-> s.sched, handler |-> s.handler]

RECURSIVE ReplicaEndpoints(_)
\* prepareCreateController, lines 312-314: replicas in the order the range
\* over the map met them.
ReplicaEndpoints(replicas) ==
    IF replicas = <<>> THEN <<>>
    ELSE <<"tcp://" \o Head(replicas).Address \o ":9502">> \o ReplicaEndpoints(Tail(replicas))

prepareCreateController(st, volumeName, controllerName, replicas, gf) ==
    LET g == getVolume(st, volumeName, gf) IN
    IF g.err # NoErr
    THEN [data |-> Nil, err |-> Wrap(g.err, "unable to create controller")]
    ELSE IF g.v = Nil
    THEN [data |-> Nil, err |-> Wrap(g.err, "unable to find volume")]
    ELSE [data |-> [Orchestrator |-> OrcName,
                    Data |-> Marshal([InstanceName |-> controllerName,
                                      VolumeName |-> volumeName,
                                      VolumeSize |-> "",
                                      LonghornImage |-> g.v.LonghornImage,
                                      ReplicaAddresses |-> ReplicaEndpoints(replicas)])],
          err |-> NoErr]

\* CreateController, lines 279-287: the request handed to the Scheduler.
CreateControllerItem(controllerName, data) ==
    [Action |-> ScheduleActionCreateController,
     Instance |-> [ID |-> controllerName, HostID |-> CurrentHostID,
                   Type |-> InstanceTypeController],
     Data |-> data]

CreateController(rt, e, st, volumeName, controllerName, replicas, gf, place) ==
    LET p == prepareCreateController(st, volumeName, controllerName, replicas, gf) IN
    IF p.err # NoErr
    THEN Returned(rt, Nil, Wrap(p.err, "Fail to create controller"))
    ELSE IF p.data = Nil
    THEN Panicked(rt)
    ELSE Scheduled(Schedule(rt, e, CreateControllerItem(controllerName, p.data), place),
                   "Fail to create controller")

prepareCreateReplica(st, volumeName, replicaName, gf) ==
    LET g == getVolume(st, volumeName, gf) IN
    IF g.err # NoErr
    THEN [data |-> Nil, err |-> Wrap(g.err, "unable to create replica")]
    ELSE IF g.v = Nil
    THEN [data |-> Nil, err |-> Wrap(g.err, "unable to find volume")]
    ELSE IF g.v.Size = 0
    THEN [data |-> Nil, err |-> Wrap(g.err, "invalid volume size 0")]
    ELSE [data |-> [Orchestrator |-> OrcName,
                    Data |-> Marshal([InstanceName |-> replicaName,
                                      VolumeName |-> g.v.Name,
                                      VolumeSize |-> FormatInt(g.v.Size),
                                      LonghornImage |-> g.v.LonghornImage,
                                      ReplicaAddresses |-> <<>>])],
          err |-> NoErr]

\* CreateReplica, lines 383-390: the request handed to the Scheduler, which
\* picks the host.
CreateReplicaItem(replicaName, data) ==
    [Action |-> ScheduleActionCreateReplica,
     Instance |-> [ID |-> replicaName, HostID |-> "", Type |-> InstanceTypeReplica],
     Data |-> data]

CreateReplica(rt, e, st, volumeName, replicaName, gf, place) ==
    LET p == prepareCreateReplica(st, volumeName, replicaName, gf) IN
    IF p.err # NoErr
    THEN Returned(rt, Nil, Wrap(p.err, "Fail to create replica"))
    ELSE IF p.data = Nil
    THEN Panicked(rt)
    ELSE Scheduled(Schedule(rt, e, CreateReplicaItem(replicaName, p.data), place),
                   "Fail to create replica")

\* The validation without the HostID test.
InvalidInstanceNoHost(instance) ==
    instance.ID = "" \/ instance.Type = InstanceTypeNone

\* Lines 478, 508, 538: the instance reference is incomplete.
InvalidInstance(instance) ==
    instance.ID = "" \/ instance.HostID = "" \/ instance.Type = InstanceTypeNone

\* Lines 482-492, 512-522, 542-552: the request for an existing instance.
InstanceItem(action, instance) ==
    [Action |-> action,
     Instance |-> [ID |-> instance.ID, HostID |-> instance.HostID, Type |-> instance.Type],
     Data |-> [Orchestrator |-> OrcName, Data |-> EmptyBytes]]

\* StartInstance, StopInstance and RemoveInstance return only the error.
ErrorOnly(r) == [r EXCEPT !.val = Nil]

StartInstance(rt, e, instance, place) ==
    IF InvalidInstance(instance)
    THEN Returned(rt, Nil, Errorf("Invalid instance info to start"))
    ELSE ErrorOnly(Scheduled(Schedule(rt, e, InstanceItem(ScheduleActionStartInstance, instance),
                                      place), "Fail to start instance"))

StopInstance(rt, e, instance, place) ==
    IF InvalidInstance(instance)
    THEN Returned(rt, Nil, Errorf("Invalid instance info to stop"))
    ELSE ErrorOnly(Scheduled(Schedule(rt, e, InstanceItem(ScheduleActionStopInstance, instance),
                                      place), "Fail to stop instance"))

RemoveInstance(rt, e, instance, place) ==
    IF InvalidInstance(instance)
    THEN Returned(rt, Nil, Errorf("Invalid instance info to remove"))
    ELSE ErrorOnly(Scheduled(Schedule(rt, e, InstanceItem(ScheduleActionDeleteInstance, instance),
                                      place), "Fail to remove instance"))

----------------------------------------------------------------------------
(* The outcomes of the collaborator calls.  A handler reads only some of   *)
(* them; the ones it does not read are held at TRUE, so that every input   *)
(* drawn is a different run of the handler.                                *)

Envs ==
    [create : BOOLEAN, start : BOOLEAN, running : BOOLEAN, inspect : BOOLEAN,
     remove : BOOLEAN, stop : BOOLEAN, api : BOOLEAN, device : BOOLEAN]

AllOK ==
    [create |-> TRUE, start |-> TRUE, running |-> TRUE, inspect |-> TRUE,
     remove |-> TRUE, stop |-> TRUE, api |-> TRUE, device |-> TRUE]

StartEnvs ==
    { e \in Envs : /\ e.create /\ e.remove /\ e.stop /\ e.api /\ e.device
                   /\ ~e.start => (e.running /\ e.inspect) }

StopEnvs ==
    { e \in Envs : /\ e.create /\ e.start /\ e.running /\ e.remove /\ e.api /\ e.device
                   /\ ~e.stop => e.inspect }

RemoveEnvs ==
    { e \in Envs : e.create /\ e.start /\ e.running /\ e.inspect /\ e.stop /\ e.api /\ e.device }

CreateReplicaEnvs ==
    { e \in Envs : /\ e.stop /\ e.api /\ e.device
                   /\ ~e.create => (e.start /\ e.running /\ e.inspect /\ e.remove)
                   /\ ~e.start => (e.running /\ e.inspect)
                   /\ (e.start /\ e.inspect) => e.remove }

CreateControllerEnvs ==
    { e \in Envs : /\ e.stop
                   /\ ~e.create => (e.start /\ e.running /\ e.inspect /\ e.remove)
                   /\ ~e.start => (e.running /\ e.inspect)
                   /\ (e.start /\ e.inspect) => e.remove
                   /\ ~(e.create /\ e.start /\ e.inspect) => (e.api /\ e.device)
                   /\ ~e.api => e.device }

EnvsFor(action) ==
    CASE action = ScheduleActionCreateController -> CreateControllerEnvs
      [] action = ScheduleActionCreateReplica -> CreateReplicaEnvs
      [] action = ScheduleActionStartInstance -> StartEnvs
      [] action = ScheduleActionStopInstance -> StopEnvs
      [] action = ScheduleActionDeleteInstance -> RemoveEnvs
      [] OTHER -> {AllOK}

\* The placements that differ for a request naming hostID, and the outcomes
\* that differ once the request is placed.
PlacementsFor(hostID) ==
    IF hostID = "" THEN Placements
    ELSE IF hostID = CurrentHostID THEN { p \in Placements : p.host = CurrentHostID }
    ELSE { p \in Placements : p.host # CurrentHostID }

PlacedEnvs(hostID, place, action) ==
    IF hostID = CurrentHostID \/ (hostID = "" /\ place.host = CurrentHostID)
    THEN EnvsFor(action)
    ELSE {AllOK}

----------------------------------------------------------------------------
(* Inputs of the public operations *)

ControllerNames == {"", "c1"}
ReplicaInstanceNames == {"", "r1"}

\* The replicas handed to CreateController, in the order the range over the
\* map meets them.
ReplicaSeqs ==
    {<<>>, <<ReplicaInfo("r1", ZeroTime)>>,
     <<ReplicaInfo("r1", ZeroTime), ReplicaInfo("r2", ZeroTime)>>,
     <<ReplicaInfo("r2", ZeroTime), ReplicaInfo("r1", ZeroTime)>>}

InstanceInfo(id, type, hostID) ==
    [ID |-> id, Type |-> type, Name |-> "", HostID |-> hostID, Address |-> "", Running |-> FALSE]

InstanceInputs ==
    { InstanceInfo(id, type, hostID) :
        id \in {""} \cup CIDs,
        type \in {InstanceTypeNone, InstanceTypeController, InstanceTypeReplica},
        hostID \in {""} \cup Hosts }

PayloadInputs ==
    {EmptyBytes, GarbageBytes,
     Marshal([InstanceName |-> "c1", VolumeName |-> "v1", VolumeSize |-> "",
              LonghornImage |-> "img", ReplicaAddresses |-> <<"tcp://10.0.1.r1:9502">>]),
     Marshal([InstanceName |-> "r1", VolumeName |-> "v1", VolumeSize |-> "1",
              LonghornImage |-> "img", ReplicaAddresses |-> <<>>])}

\* The requests a Scheduler, this host's or another's, may deliver.
ItemInputs ==
    { [Action |-> a,
       Instance |-> [ID |-> id, HostID |-> CurrentHostID, Type |-> type],
       Data |-> [Orchestrator |-> o, Data |-> d]] :
        a \in KnownActions \cup {"resize-instance"},
        id \in {"", "c1"} \cup CIDs,
        type \in {InstanceTypeController},
        o \in {OrcName, "kubernetes"},
        d \in PayloadInputs }

----------------------------------------------------------------------------
(* State and actions: one caller at a time.  A call runs to its end and    *)
(* leaves in last what the caller and the collaborators saw of it; the     *)
(* caller takes the result before the next call.  The runs in which the    *)
(* calls of several callers interleave are those of SpecConc (the volume   *)
(* operations) and SpecRun (CreateController, CreateReplica, DeleteVolume  *)
(* and the handlers of ProcessSchedule).                                   *)

Procs == 1..NumProcs

NoCall ==
    [op |-> "none", name |-> "", pre |-> Nil, arg |-> Nil, out |-> "none", err |-> NoErr,
     val |-> Nil, calls |-> <<>>, sched |-> <<>>, handler |-> "", faults |-> {}]

Outcome(panic, err) == IF panic THEN "panic" ELSE IF err = NoErr THEN "ok" ELSE "err"

\* The runtime as a handler finds it.
RT == [c |-> containers, n |-> nextId, calls |-> <<>>]

\* The runtime with no container.
RT0 == [c |-> [id \in CIDs |-> NoContainer], n |-> 1, calls |-> <<>>]

Idle == last.op = "none"

Init ==
    /\ store = [n \in VolNames |-> Nil]
    /\ clock = 1
    /\ containers = [id \in CIDs |-> NoContainer]
    /\ nextId = 1
    /\ last = NoCall
    /\ pc = [p \in Procs |-> "idle"]
    /\ req = [p \in Procs |-> Nil]
    /\ loc = [p \in Procs |-> Nil]
    /\ writes = <<>>
    /\ identity = RegisteredHost

\* The store calls that fail when the operation makes them: its first lookup,
\* the lookup inside UpdateVolume that MarkBadReplica goes on to, its write.
Faults(gf, gf2, sf) ==
    {"get" : x \in {y \in {gf} : y}} \cup {"get2" : x \in {y \in {gf2} : y}}
        \cup {"set" : x \in {y \in {sf} : y}}

\* What a volume operation leaves.
VolumeCall(op, name, arg, r, val, panic, faults) ==
    /\ store' = r.st
    /\ last' = [NoCall EXCEPT !.op = op, !.name = name, !.pre = store[name], !.arg = arg,
                              !.out = Outcome(panic, r.err), !.err = r.err, !.val = val,
                              !.faults = faults]
    /\ UNCHANGED <<containers, nextId, pc, req, loc, writes, identity>>

CallCreateVolume ==
    /\ Idle
    /\ \E volume \in VolumeInputs, gf \in BOOLEAN, sf \in BOOLEAN :
          LET r == CreateVolume(store, volume, gf, sf) IN
          VolumeCall("CreateVolume", volume.Name, volume, r, r.val, FALSE,
                     Faults(gf, FALSE, sf))
    /\ UNCHANGED clock

CallUpdateVolume ==
    /\ Idle
    /\ \E volume \in VolumeInputs, gf \in BOOLEAN, sf \in BOOLEAN :
          LET r == UpdateVolume(store, volume, gf, sf) IN
          VolumeCall("UpdateVolume", volume.Name, volume, r, Nil, FALSE,
                     Faults(gf, FALSE, sf))
    /\ UNCHANGED clock

CallDeleteVolume ==
    /\ Idle
    /\ \E volumeName \in VolNames, fail \in BOOLEAN :
          LET r == DeleteVolume(store, volumeName, fail) IN
          VolumeCall("DeleteVolume", volumeName, Nil, r, Nil, FALSE,
                     Faults(FALSE, FALSE, fail))
    /\ UNCHANGED clock

CallGetVolume ==
    /\ Idle
    /\ \E volumeName \in VolNames, fail \in BOOLEAN :
          LET g == GetVolume(store, volumeName, fail) IN
          VolumeCall("GetVolume", volumeName, Nil, [st |-> store, err |-> g.err], g.v, FALSE,
                     Faults(fail, FALSE, FALSE))
    /\ UNCHANGED clock

\* time.Now() is the clock; k is the entry the range over the map meets first
\* among those named replica.Name.
CallMarkBadReplica ==
    /\ Idle
    /\ \E volumeName \in VolNames, name \in ReplicaNames, k \in ReplicaNames,
          gf \in BOOLEAN, gf2 \in BOOLEAN, sf \in BOOLEAN :
          LET replica == ReplicaInfo(name, ZeroTime)
              r == MarkBadReplica(store, volumeName, replica, k, clock, gf, gf2, sf)
          IN  /\ (store[volumeName] # Nil /\ MarkTargets(store[volumeName], replica) # {})
                    => k \in MarkTargets(store[volumeName], replica)
              /\ VolumeCall("MarkBadReplica", volumeName, replica, r, Nil, r.panic,
                            Faults(gf, gf2, sf))
    /\ UNCHANGED clock

\* Time passes.
Tick ==
    /\ clock < MaxClock
    /\ clock' = clock + 1
    /\ UNCHANGED <<store, containers, nextId, last, pc, req, loc, writes, identity>>

\* What an instance operation leaves.
InstanceCall(op, name, arg, r) ==
    /\ containers' = r.rt.c
    /\ nextId' = r.rt.n
    /\ last' = [op |-> op, name |-> name, pre |-> IF name \in VolNames THEN store[name] ELSE Nil,
                arg |-> arg, out |-> Outcome(r.panic, r.err), err |-> r.err, val |-> r.val,
                calls |-> r.rt.calls, sched |-> r.sched, handler |-> r.handler,
                faults |-> {}]
    /\ UNCHANGED <<store, clock, pc, req, loc, writes, identity>>

CallCreateController ==
    /\ Idle
    /\ \E volumeName \in VolNames, controllerName \in ControllerNames,
          replicas \in ReplicaSeqs, gf \in BOOLEAN,
          place \in PlacementsFor(CurrentHostID), e \in CreateControllerEnvs :
          InstanceCall("CreateController", volumeName,
                       [name |-> controllerName, replicas |-> replicas],
                       CreateController(RT, e, store, volumeName, controllerName, replicas,
                                        gf, place))

CallCreateReplica ==
    /\ Idle
    /\ \E volumeName \in VolNames, replicaName \in ReplicaInstanceNames, gf \in BOOLEAN,
          place \in PlacementsFor("") :
          \E e \in PlacedEnvs("", place, ScheduleActionCreateReplica) :
              InstanceCall("CreateReplica", volumeName, [name |-> replicaName],
                           CreateReplica(RT, e, store, volumeName, replicaName, gf, place))

CallStartInstance ==
    /\ Idle
    /\ \E instance \in InstanceInputs :
          \E place \in PlacementsFor(instance.HostID) :
              \E e \in PlacedEnvs(instance.HostID, place, ScheduleActionStartInstance) :
                  InstanceCall("StartInstance", "", instance,
                               StartInstance(RT, e, instance, place))

CallStopInstance ==
    /\ Idle
    /\ \E instance \in InstanceInputs :
          \E place \in PlacementsFor(instance.HostID) :
              \E e \in PlacedEnvs(instance.HostID, place, ScheduleActionStopInstance) :
                  InstanceCall("StopInstance", "", instance,
                               StopInstance(RT, e, instance, place))

CallRemoveInstance ==
    /\ Idle
    /\ \E instance \in InstanceInputs :
          \E place \in PlacementsFor(instance.HostID) :
              \E e \in PlacedEnvs(instance.HostID, place, ScheduleActionDeleteInstance) :
                  InstanceCall("RemoveInstance", "", instance,
                               RemoveInstance(RT, e, instance, place))

\* A Scheduler delivers a request to this host.
CallProcessSchedule ==
    /\ Idle
    /\ \E item \in ItemInputs :
          \E e \in EnvsFor(item.Action) :
              LET r == ProcessSchedule(RT, e, item) IN
              InstanceCall("ProcessSchedule", "", item,
                           [rt |-> r.rt, val |-> r.inst, err |-> r.err, panic |-> FALSE,
                            sched |-> <<>>, handler |-> r.handler])

\* The caller takes the result.
Return ==
    /\ ~Idle
    /\ last' = NoCall
    /\ UNCHANGED <<store, clock, containers, nextId, pc, req, loc, writes, identity>>

\* The instance lifecycle, with the volume records it reads.
Next ==
    \/ CallCreateVolume
    \/ CallUpdateVolume
    \/ CallDeleteVolume
    \/ CallCreateController
    \/ CallCreateReplica
    \/ CallStartInstance
    \/ CallStopInstance
    \/ CallRemoveInstance
    \/ CallProcessSchedule
    \/ Return

Spec == Init /\ [][Next]_vars

\* The volume operations on the metadata store.
NextVolume ==
    \/ CallCreateVolume
    \/ CallUpdateVolume
    \/ CallDeleteVolume
    \/ CallGetVolume
    \/ CallMarkBadReplica
    \/ Tick
    \/ Return

SpecVolume == Init /\ [][NextVolume]_vars

----------------------------------------------------------------------------
(* The host identity over the life of a machine: the engine registers at   *)
(* every start of the process (NewDockerOrchestrator, line 116).           *)

InitHost ==
    /\ store = [n \in VolNames |-> Nil]
    /\ clock = 1
    /\ containers = [id \in CIDs |-> NoContainer]
    /\ nextId = 1
    /\ last = NoCall
    /\ pc = [p \in Procs |-> "idle"]
    /\ req = [p \in Procs |-> Nil]
    /\ loc = [p \in Procs |-> Nil]
    /\ writes = <<>>
    /\ identity = NoHost

\* Register; last.pre is the content of the UUID file before the call,
\* last.val the currentHost after it.
CallRegister ==
    /\ Idle
    /\ \E address \in Addresses, hostnameFail \in BOOLEAN, readFail \in BOOLEAN,
          mkdirFail \in BOOLEAN, writeFail \in BOOLEAN, setFail \in BOOLEAN :
          LET r == Register(identity, address, hostnameFail, readFail, mkdirFail, writeFail,
                            setFail)
          IN  /\ r.h.next <= MaxUUIDs + 1
              /\ identity' = r.h
              /\ last' = [NoCall EXCEPT !.op = "Register", !.pre = identity.file, !.arg = address,
                                        !.out = Outcome(FALSE, r.err), !.err = r.err,
                                        !.val = r.h.current]
    /\ UNCHANGED <<store, clock, containers, nextId, pc, req, loc, writes>>

\* The process ends; the next one starts with no currentHost.
Restart ==
    /\ Idle
    /\ identity.current # Nil
    /\ identity' = [identity EXCEPT !.current = Nil]
    /\ UNCHANGED <<store, clock, containers, nextId, last, pc, req, loc, writes>>

NextHost ==
    \/ CallRegister
    \/ Restart
    \/ Return

SpecHost == InitHost /\ [][NextHost]_vars

----------------------------------------------------------------------------
(* Concurrent callers of the volume operations.  Each caller makes one     *)
(* call; the store calls of different callers interleave, since the engine *)
(* holds no lock across the lookup and the write of one operation.         *)

\* The volumes concurrent callers pass in: they differ in Size and Replicas.
ConcVolumes ==
    { VolumeInfo("v1", 0, "img", <<>>),
      VolumeInfo("v1", 1, "img", [r \in {"r1"} |-> ReplicaInfo(r, ZeroTime)]),
      VolumeInfo("v1", 1, "img", [r \in {"r1", "r2"} |-> ReplicaInfo(r, ZeroTime)]) }

ConcRequests ==
    { [op |-> o, name |-> v.Name, volume |-> v, replica |-> Nil] :
        o \in {"CreateVolume", "UpdateVolume"}, v \in ConcVolumes }
    \cup
    { [op |-> "MarkBadReplica", name |-> "v1", volume |-> Nil,
       replica |-> ReplicaInfo(r, ZeroTime)] : r \in ReplicaNames }

\* A caller's locals: the volume it is about to write and what it returned.
\* last.pre keeps the record that was stored before the callers began.
Locals(volume) == [volume |-> volume, out |-> "none", err |-> NoErr, val |-> Nil]

InitConc ==
    /\ store \in { [n \in VolNames |-> v] : v \in {Nil} \cup ConcVolumes }
    /\ clock = 1
    /\ containers = [id \in CIDs |-> NoContainer]
    /\ nextId = 1
    /\ last = [NoCall EXCEPT !.name = "v1", !.pre = store["v1"]]
    /\ req \in [Procs -> ConcRequests]
    /\ pc = [p \in Procs |-> IF req[p].op = "MarkBadReplica" THEN "mark" ELSE "get"]
    /\ loc = [p \in Procs |-> Locals(req[p].volume)]
    /\ writes = <<>>
    /\ identity = RegisteredHost

\* Caller p returns.
Done(p, panic, err, val) ==
    /\ pc' = [pc EXCEPT ![p] = "done"]
    /\ loc' = [loc EXCEPT ![p].out = Outcome(panic, err), ![p].err = err, ![p].val = val]

\* MarkBadReplica, lines 220-230: the lookup and the stamp; line 231 goes on
\* into UpdateVolume with the stamped record.
MarkGet(p) ==
    /\ pc[p] = "mark"
    /\ \E fail \in BOOLEAN, k \in ReplicaNames :
          LET g == getVolume(store, req[p].name, fail) IN
          IF g.err # NoErr
          THEN Done(p, FALSE, Wrap(g.err, "fail to mark bad replica, cannot get volume"), Nil)
          ELSE IF g.v = Nil
          THEN Done(p, TRUE, NoErr, Nil)
          ELSE /\ MarkTargets(g.v, req[p].replica) # {} => k \in MarkTargets(g.v, req[p].replica)
               /\ pc' = [pc EXCEPT ![p] = "get"]
               /\ loc' = [loc EXCEPT ![p].volume = MarkLoop(g.v, req[p].replica, k, clock)]
    /\ UNCHANGED <<store, clock, containers, nextId, last, req, writes, identity>>

\* The error MarkBadReplica makes of UpdateVolume's (line 232).
ConcErr(p, err) ==
    IF req[p].op = "MarkBadReplica"
    THEN Wrap(err, "fail to mark bad replica, cannot update volume")
    ELSE err

\* The lookup that opens CreateVolume (line 188) and UpdateVolume (line 208).
Get(p) ==
    /\ pc[p] = "get"
    /\ \E fail \in BOOLEAN :
          LET g == getVolume(store, loc[p].volume.Name, fail) IN
          IF req[p].op = "CreateVolume"
          THEN IF CreateVolumeExists(g)
               THEN Done(p, FALSE, Errorf("volume already exists"), Nil)
               ELSE pc' = [pc EXCEPT ![p] = "set"] /\ UNCHANGED loc
          ELSE IF UpdateVolumeMissing(g)
               THEN Done(p, FALSE,
                         ConcErr(p, Errorf("cannot update volume because it doesn't exists")),
                         Nil)
               ELSE pc' = [pc EXCEPT ![p] = "set"] /\ UNCHANGED loc
    /\ UNCHANGED <<store, clock, containers, nextId, last, req, writes, identity>>

\* The write that closes CreateVolume (lines 192-195) and UpdateVolume (line 212).
Set(p) ==
    /\ pc[p] = "set"
    /\ \E fail \in BOOLEAN :
          LET r == IF req[p].op = "CreateVolume"
                   THEN CreateVolumeSet(store, loc[p].volume, fail)
                   ELSE [UpdateVolumeSet(store, loc[p].volume, fail) EXCEPT !.err = ConcErr(p, @)]
          IN  /\ store' = r.st
              /\ writes' = IF r.err = NoErr THEN Append(writes, p) ELSE writes
              /\ Done(p, FALSE, r.err, IF req[p].op = "CreateVolume" THEN r.val ELSE Nil)
    /\ UNCHANGED <<clock, containers, nextId, last, req, identity>>

NextConc ==
    \/ \E p \in Procs : MarkGet(p)
    \/ \E p \in Procs : Get(p)
    \/ \E p \in Procs : Set(p)
    \/ Tick

SpecConc == InitConc /\ [][NextConc]_vars

----------------------------------------------------------------------------
(* Concurrent callers.  The engine holds no lock: CreateController and      *)
(* CreateReplica block in the store lookup, then in the Scheduler, which    *)
(* runs the handler on the host it picks; a handler blocks in each of its   *)
(* runtime calls and waits.  The calls of the callers being served          *)
(* interleave, one step for each blocking call: a volume may be deleted     *)
(* between the lookup and the handler, and the process of a started         *)
(* container may exit at any time.                                          *)

RunItem(action, id, type, bytes) ==
    [Action |-> action,
     Instance |-> [ID |-> id, HostID |-> CurrentHostID, Type |-> type],
     Data |-> [Orchestrator |-> OrcName, Data |-> bytes]]

\* The requests other Schedulers deliver to this host: the operations on the
\* containers there are, and a request for an action the engine does not know.
RunItems ==
    { RunItem("resize-instance", "c1", InstanceTypeController, EmptyBytes) }
    \cup
    { RunItem(a, id, InstanceTypeController, EmptyBytes) :
        a \in {ScheduleActionStartInstance, ScheduleActionStopInstance,
               ScheduleActionDeleteInstance},
        id \in CIDs }

\* A call under way: the operation, the volume and the instance it names, the
\* replicas of a controller, the request delivered to ProcessSchedule.
RunCall(op, volumeName, name, replicas, item) ==
    [op |-> op, volumeName |-> volumeName, name |-> name, replicas |-> replicas, item |-> item]

\* The calls served at once.
RunRequests ==
    { RunCall("CreateController", "v1", "c1", <<ReplicaInfo("r1", ZeroTime)>>, Nil),
      RunCall("CreateReplica", "v1", "r1", <<>>, Nil),
      RunCall("DeleteVolume", "v1", "", <<>>, Nil) }
    \cup
    { RunCall("ProcessSchedule", "", "", <<>>, item) : item \in RunItems }

\* The volume stored before the calls.
RunVolume == VolumeInfo("v1", 1, "img", [r \in {"r1"} |-> ReplicaInfo(r, ZeroTime)])

\* The locals of a call being served: the request for ProcessSchedule, its
\* payload, the container the handler works on and its type, the Instance and
\* the error under way, the result, and the calls the handler made.
RunLocals(item) ==
    [item |-> item, data |-> ZeroData, id |-> "", type |-> InstanceTypeNone, inst |-> Nil,
     err |-> NoErr, out |-> "none", calls |-> <<>>, handler |-> ""]

\* Where a call begins: the lookup of prepareCreateController (line 298) and
\* prepareCreateReplica (line 401), the removal of DeleteVolume (line 199),
\* the checks of ProcessSchedule (line 246).
RunFirst(op) ==
    CASE op \in {"CreateController", "CreateReplica"} -> "prepare"
      [] op = "DeleteVolume" -> "rmVolume"
      [] op = "ProcessSchedule" -> "accept"

\* The store and the runtime before the calls: one volume, and one container,
\* created and not started.
InitRun ==
    /\ store = [n \in VolNames |-> RunVolume]
    /\ clock = 1
    /\ containers = RtCreate(RT0, "c0", <<>>, TRUE).rt.c
    /\ nextId = RtCreate(RT0, "c0", <<>>, TRUE).rt.n
    /\ last = NoCall
    /\ req \in [Procs -> RunRequests]
    /\ pc = [p \in Procs |-> RunFirst(req[p].op)]
    /\ loc = [p \in Procs |-> RunLocals(req[p].item)]
    /\ writes = <<>>
    /\ identity = RegisteredHost

\* The runtime as the handler serving p finds it, with the calls p made.
RunRT(p) == [c |-> containers, n |-> nextId, calls |-> loc[p].calls]

\* A step of p: it leaves the runtime rt and goes on to next with locals l.
RunTo(p, rt, next, l) ==
    /\ containers' = rt.c
    /\ nextId' = rt.n
    /\ pc' = [pc EXCEPT ![p] = next]
    /\ loc' = [loc EXCEPT ![p] = [l EXCEPT !.calls = rt.calls]]
    /\ UNCHANGED <<store, clock, last, req, writes, identity>>

\* The error the caller of p gets: CreateController (lines 276-277, 289-290)
\* and CreateReplica (lines 380-381, 392-393) wrap the one they met.
RunErr(p, err) ==
    CASE req[p].op = "CreateController" -> Wrap(err, "Fail to create controller")
      [] req[p].op = "CreateReplica" -> Wrap(err, "Fail to create replica")
      [] OTHER -> err

\* The call of p returns.
RunDone(p, rt, inst, err) ==
    RunTo(p, rt, "done",
          [loc[p] EXCEPT !.inst = inst, !.err = RunErr(p, err), !.out = Outcome(FALSE, err)])

\* prepareCreateController (lines 297-324) and prepareCreateReplica (lines
\* 400-425): the lookup in the store and the payload made of the volume it
\* returned; then the request of lines 279-287 and 383-390, whose Data is
\* *data.
RunPrepare(p) ==
    /\ pc[p] = "prepare"
    /\ \E gf \in BOOLEAN :
          LET c == req[p]
              r == IF c.op = "CreateController"
                   THEN prepareCreateController(store, c.volumeName, c.name, c.replicas, gf)
                   ELSE prepareCreateReplica(store, c.volumeName, c.name, gf)
          IN  IF r.err # NoErr
              THEN RunDone(p, RunRT(p), Nil, r.err)
              ELSE IF r.data = Nil
              THEN RunTo(p, RunRT(p), "done", [loc[p] EXCEPT !.out = Outcome(TRUE, NoErr)])
              ELSE RunTo(p, RunRT(p), "schedule",
                         [loc[p] EXCEPT !.item = IF c.op = "CreateController"
                                                 THEN CreateControllerItem(c.name, r.data)
                                                 ELSE CreateReplicaItem(c.name, r.data)])

\* Scheduler.Schedule (lines 288, 391) routes the request: to this host, where
\* ProcessSchedule takes it, or to another one, which answers.
RunSchedule(p) ==
    /\ pc[p] = "schedule"
    /\ \E place \in PlacementsFor(loc[p].item.Instance.HostID) :
          LET item == loc[p].item
              target == ScheduleTarget(item, place)
          IN  IF target = CurrentHostID
              THEN RunTo(p, RunRT(p), "accept",
                         [loc[p] EXCEPT !.item = [item EXCEPT !.Instance.HostID = target]])
              ELSE IF place.remoteOK
              THEN RunDone(p, RunRT(p), RemoteInstance(item, target), NoErr)
              ELSE RunDone(p, RunRT(p), Nil, Errorf("remote schedule failed"))

\* DeleteVolume (lines 198-200).
RunDeleteVolume(p) ==
    /\ pc[p] = "rmVolume"
    /\ \E fail \in BOOLEAN :
          LET r == DeleteVolume(store, req[p].volumeName, fail) IN
          /\ store' = r.st
          /\ pc' = [pc EXCEPT ![p] = "done"]
          /\ loc' = [loc EXCEPT ![p].err = r.err, ![p].out = Outcome(FALSE, r.err)]
    /\ UNCHANGED <<clock, containers, nextId, last, req, writes, identity>>

\* p is served by createController.
RunController(p) == loc[p].item.Action = ScheduleActionCreateController

\* p is served by createController or createReplica.
RunCreating(p) ==
    loc[p].item.Action \in {ScheduleActionCreateController, ScheduleActionCreateReplica}

\* The start step failed (lines 352-357, 451-456): a creation goes on to clean
\* up, every other handler returns the error.
RunFailed(p, rt, err) ==
    IF RunCreating(p)
    THEN RunTo(p, rt, "cleanup", [loc[p] EXCEPT !.err = err])
    ELSE RunDone(p, rt, Nil, err)

\* The handler of an action and the first call it makes (lines 259-270).
RunHandler(action) ==
    CASE action = ScheduleActionCreateController -> [name |-> "createController", first |-> "create"]
      [] action = ScheduleActionCreateReplica -> [name |-> "createReplica", first |-> "create"]
      [] action = ScheduleActionStartInstance -> [name |-> "startInstance", first |-> "start"]
      [] action = ScheduleActionStopInstance -> [name |-> "stopInstance", first |-> "stop"]
      [] action = ScheduleActionDeleteInstance -> [name |-> "removeInstance", first |-> "remove"]

\* ProcessSchedule, lines 246-271: the checks and the switch.
RunAccept(p) ==
    /\ pc[p] = "accept"
    /\ LET item == loc[p].item
           c == ProcessScheduleChecks(item)
           a == item.Action
       IN  IF c.err # NoErr
           THEN RunDone(p, RunRT(p), Nil, c.err)
           ELSE IF a \notin KnownActions
           THEN RunDone(p, RunRT(p), Nil, Errorf("Cannot find specified action"))
           ELSE RunTo(p, RunRT(p), RunHandler(a).first,
                      [loc[p] EXCEPT !.data = c.data,
                                     !.handler = RunHandler(a).name,
                                     !.id = IF RunCreating(p) THEN "" ELSE item.Instance.ID,
                                     !.type = IF a = ScheduleActionCreateController
                                              THEN InstanceTypeController
                                              ELSE IF a = ScheduleActionCreateReplica
                                              THEN InstanceTypeReplica
                                              ELSE item.Instance.Type])

\* ContainerCreate in createController (lines 337-351) and createReplica
\* (lines 434-450).
RunCreate(p) ==
    /\ pc[p] = "create"
    /\ \E ok \in BOOLEAN :
          LET data == loc[p].data
              c == RtCreate(RunRT(p), data.InstanceName,
                            IF RunController(p) THEN ControllerCmd(data) ELSE ReplicaCmd(data),
                            ok)
          IN  IF c.err # NoErr
              THEN RunDone(p, c.rt, Nil,
                           Wrap(c.err, IF RunController(p)
                                       THEN "fail to create controller container"
                                       ELSE "fail to create replica container"))
              ELSE RunTo(p, c.rt, "start", [loc[p] EXCEPT !.id = c.id])

\* ContainerStart in startInstance (lines 500-503).
RunStart(p) ==
    /\ pc[p] = "start"
    /\ \E ok \in BOOLEAN :
          LET s == RtStart(RunRT(p), loc[p].id, ok, TRUE) IN
          IF s.err # NoErr
          THEN RunFailed(p, s.rt, Wrap(s.err, "fail to start instance"))
          ELSE RunTo(p, s.rt, "inspect", loc[p])

\* ContainerStop in stopInstance (lines 530-533).
RunStop(p) ==
    /\ pc[p] = "stop"
    /\ \E ok \in BOOLEAN :
          LET s == RtStop(RunRT(p), loc[p].id, ok) IN
          IF s.err # NoErr
          THEN RunDone(p, s.rt, Nil, Wrap(s.err, "fail to start instance"))
          ELSE RunTo(p, s.rt, "inspect", loc[p])

\* generateInstanceInfo (lines 460-475), which ends startInstance and
\* stopInstance.
RunInspect(p) ==
    /\ pc[p] = "inspect"
    /\ \E ok \in BOOLEAN :
          LET g == generateInstanceInfo(RunRT(p), [inspect |-> ok], loc[p].id, loc[p].type) IN
          IF g.err # NoErr
          THEN RunFailed(p, g.rt, g.err)
          ELSE IF RunController(p)
          THEN RunTo(p, g.rt, "waitAPI", [loc[p] EXCEPT !.inst = g.inst])
          ELSE RunDone(p, g.rt, g.inst, NoErr)

\* The cleanup after a failed start step (lines 353-356, 452-455).
RunCleanup(p) ==
    /\ pc[p] = "cleanup"
    /\ \E ok \in BOOLEAN :
          LET r == removeInstance(RunRT(p), [remove |-> ok], loc[p].id, loc[p].type) IN
          RunDone(p, r.rt, Nil,
                  Wrap(loc[p].err, IF RunController(p)
                                   THEN "fail to start controller container"
                                   ELSE "fail to start replica container"))

\* createController, lines 359-365.
RunWaitAPI(p) ==
    /\ pc[p] = "waitAPI"
    /\ \E ok \in BOOLEAN :
          LET a == waitAPI(RunRT(p), loc[p].inst, ok) IN
          IF a.err # NoErr
          THEN RunDone(p, a.rt, Nil, a.err)
          ELSE RunTo(p, a.rt, "waitDevice", [loc[p] EXCEPT !.inst = a.inst])

\* createController, lines 367-371.
RunWaitDevice(p) ==
    /\ pc[p] = "waitDevice"
    /\ \E ok \in BOOLEAN :
          LET d == waitDevice(RunRT(p), loc[p].inst, loc[p].data, ok) IN
          RunDone(p, d.rt, d.inst, d.err)

\* removeInstance as a handler (lines 559-570).
RunRemove(p) ==
    /\ pc[p] = "remove"
    /\ \E ok \in BOOLEAN :
          LET r == removeInstance(RunRT(p), [remove |-> ok], loc[p].id, loc[p].type) IN
          RunDone(p, r.rt, r.inst, r.err)

\* The process of a running container exits by itself.
Exit ==
    /\ \E id \in CIDs :
          /\ containers[id].present
          /\ containers[id].running
          /\ containers' = [containers EXCEPT ![id].running = FALSE]
    /\ UNCHANGED <<store, clock, nextId, last, pc, req, loc, writes, identity>>

NextRun ==
    \/ \E p \in Procs : RunPrepare(p)
    \/ \E p \in Procs : RunSchedule(p)
    \/ \E p \in Procs : RunDeleteVolume(p)
    \/ \E p \in Procs : RunAccept(p)
    \/ \E p \in Procs : RunCreate(p)
    \/ \E p \in Procs : RunStart(p)
    \/ \E p \in Procs : RunStop(p)
    \/ \E p \in Procs : RunInspect(p)
    \/ \E p \in Procs : RunCleanup(p)
    \/ \E p \in Procs : RunWaitAPI(p)
    \/ \E p \in Procs : RunWaitDevice(p)
    \/ \E p \in Procs : RunRemove(p)
    \/ Exit

SpecRun == InitRun /\ [][NextRun]_vars

----------------------------------------------------------------------------
(* Properties *)

\* The call log of the call just completed.
Calls == last.calls

\* Call i created a container and the start step that followed failed: the
\* start itself, or the inspection after it.
StartStepFailedAt(i) ==
    /\ Calls[i].op = "create" /\ Calls[i].ok
    /\ i + 1 <= Len(Calls)
    /\ Calls[i + 1].op = "start"
    /\ \/ ~Calls[i + 1].ok
       \/ /\ i + 2 <= Len(Calls)
          /\ Calls[i + 2].op = "inspect"
          /\ ~Calls[i + 2].ok

\* The place in the log of the call that follows a failed start step.
AfterStartStep(i) == IF Calls[i + 1].ok THEN i + 3 ELSE i + 2

\* C1: whenever createController or createReplica created a container and the
\* start step then failed (the start, or the inspection after it), a remove of
\* exactly the created container is issued, nothing follows it, and the call
\* returns an error.
C1_StartFailureRemovesContainer ==
    \A i \in 1..Len(Calls) :
        StartStepFailedAt(i) =>
            /\ Len(Calls) = AfterStartStep(i)
            /\ Calls[AfterStartStep(i)].op = "remove"
            /\ Calls[AfterStartStep(i)].id = Calls[i].id
            /\ last.out = "err"

\* C1 witness: CreateReplica created a container, its start succeeded, the
\* inspection failed, and the container was removed before the error returned.
C1_Witness ==
    /\ last.op = "CreateReplica"
    /\ last.handler = "createReplica"
    /\ Len(Calls) = 4
    /\ StartStepFailedAt(1)
    /\ Calls[2].ok
    /\ Calls[4].op = "remove" /\ Calls[4].id = Calls[1].id /\ Calls[4].ok
    /\ ~containers[Calls[1].id].present
    /\ last.out = "err"

\* The step in which createController, serving p, returns because its API wait
\* or its device wait timed out.
ReadinessTimeout(p) ==
    /\ pc[p] \in {"waitAPI", "waitDevice"}
    /\ pc'[p] = "done"
    /\ loc'[p].err # NoErr

\* The call returned an error after it created, started and inspected one
\* container, and it made no stop and no remove.
NoRollback(l) ==
    /\ l.out = "err"
    /\ Cause(l.err) \in {"timeout waiting for api", "timeout waiting for device"}
    /\ l.calls[1].op = "create" /\ l.calls[1].ok /\ l.calls[1].id = l.id
    /\ l.calls[2].op = "start" /\ l.calls[2].ok /\ l.calls[2].id = l.id
    /\ l.calls[3].op = "inspect" /\ l.calls[3].ok /\ l.calls[3].id = l.id
    /\ \A i \in 1..Len(l.calls) : l.calls[i].op \notin {"stop", "remove"}

\* C2 as stated: when createController created and started the container and
\* the API wait or the device wait times out, the call returns an error, it
\* issued no stop and no remove for the container, and the container is present
\* and running in the runtime when the call returns.
C2_TimeoutLeavesContainerRunning ==
    [][\A p \in Procs :
          ReadinessTimeout(p) =>
              /\ NoRollback(loc'[p])
              /\ containers'[loc[p].id].present
              /\ containers'[loc[p].id].running]_vars

\* C2, amended: when createController created and started the container and
\* the API wait or the device wait times out, the call returns an error, it
\* issued no stop and no remove for the container, and it leaves every container
\* in the runtime as it was when the wait ended: present and running unless its
\* process exited or another request stopped or removed it.
C2_TimeoutLeavesContainer ==
    [][\A p \in Procs :
          ReadinessTimeout(p) => (NoRollback(loc'[p]) /\ containers' = containers)]_vars

\* C2 witness: createController returned from a device wait that timed out and
\* the container it started is in the runtime, running.
C2_Witness ==
    \E p \in Procs :
        /\ pc[p] = "done"
        /\ loc[p].handler = "createController"
        /\ Len(loc[p].calls) = 5
        /\ NoRollback(loc[p])
        /\ Cause(loc[p].err) = "timeout waiting for device"
        /\ containers[loc[p].id].present
        /\ containers[loc[p].id].running

\* A create call was made to the container runtime.
CreateCalled == \E i \in 1..Len(Calls) : Calls[i].op = "create"

\* The volume the call named was persisted, with Size 0, when it was made.
ZeroSizeVolume == last.pre # Nil /\ last.pre.Size = 0

\* C3: CreateController for a persisted volume of Size 0 returns an error, and
\* makes no Schedule call and no runtime create call.
C3_ZeroSizeControllerRefused ==
    (last.op = "CreateController" /\ ZeroSizeVolume) =>
        /\ last.out = "err"
        /\ last.sched = <<>>
        /\ ~CreateCalled

\* C4: CreateReplica for a persisted volume of Size 0 returns an error value (it
\* neither succeeds nor crashes), and makes no Schedule call and no runtime
\* create call.
C4_ZeroSizeReplicaRefused ==
    (last.op = "CreateReplica" /\ ZeroSizeVolume) =>
        /\ last.out = "err"
        /\ last.sched = <<>>
        /\ ~CreateCalled

\* C5: CreateController and CreateReplica for a volume name with no persisted
\* record return an error, however the lookup reports the absence, with no
\* Schedule call and no runtime call.
C5_MissingVolumeRefused ==
    (last.op \in {"CreateController", "CreateReplica"} /\ last.pre = Nil) =>
        /\ last.out = "err"
        /\ last.sched = <<>>
        /\ Calls = <<>>

\* The handler of each known action.
HandlerOf(action) ==
    CASE action = ScheduleActionCreateController -> "createController"
      [] action = ScheduleActionCreateReplica -> "createReplica"
      [] action = ScheduleActionStartInstance -> "startInstance"
      [] action = ScheduleActionStopInstance -> "stopInstance"
      [] action = ScheduleActionDeleteInstance -> "removeInstance"
      [] OTHER -> ""

\* The three checks of a request: its orchestrator, its instance ID, its action.
FailsChecks(item) ==
    \/ item.Data.Orchestrator # OrcName
    \/ item.Instance.ID = ""
    \/ item.Action \notin KnownActions

\* C6 as stated: ProcessSchedule refuses, with an error and no runtime call, every
\* request with another orchestrator, an empty instance ID or an unknown action,
\* and every other request reaches exactly the handler of its action.
C6_ChecksThenHandler ==
    last.op = "ProcessSchedule" =>
        IF FailsChecks(last.arg)
        THEN last.out = "err" /\ Calls = <<>> /\ last.handler = ""
        ELSE last.handler = HandlerOf(last.arg.Action)

\* C6 amended: as C6, and a request whose non-empty payload does not parse is
\* refused too, with an error and no runtime call; every request that passes the
\* three checks and whose payload is empty or parses reaches exactly the handler
\* of its action.
C6_ChecksAndPayloadThenHandler ==
    last.op = "ProcessSchedule" =>
        IF FailsChecks(last.arg) \/ last.arg.Data.Data = GarbageBytes
        THEN last.out = "err" /\ Calls = <<>> /\ last.handler = ""
        ELSE last.handler = HandlerOf(last.arg.Action)

\* C6 witness: a well-formed stop request reached stopInstance, which stopped
\* the container.
C6_Witness ==
    /\ last.op = "ProcessSchedule"
    /\ ~FailsChecks(last.arg)
    /\ last.arg.Data.Data # GarbageBytes
    /\ last.arg.Action = ScheduleActionStopInstance
    /\ last.handler = "stopInstance"
    /\ Calls[1].op = "stop" /\ Calls[1].ok

\* The action each public operation on an existing instance asks for.
ActionOf(op) ==
    CASE op = "StartInstance" -> ScheduleActionStartInstance
      [] op = "StopInstance" -> ScheduleActionStopInstance
      [] op = "RemoveInstance" -> ScheduleActionDeleteInstance

\* C7: StartInstance, StopInstance and RemoveInstance return an error without a
\* Schedule call when the instance has an empty ID, an empty HostID or Type None;
\* otherwise they hand the Scheduler exactly one request, with the action of the
\* operation and the ID, Type and HostID of the instance.
C7_InstanceOperationsValidate ==
    last.op \in {"StartInstance", "StopInstance", "RemoveInstance"} =>
        IF last.arg.ID = "" \/ last.arg.HostID = "" \/ last.arg.Type = InstanceTypeNone
        THEN last.out = "err" /\ last.sched = <<>>
        ELSE /\ Len(last.sched) = 1
             /\ last.sched[1].Action = ActionOf(last.op)
             /\ last.sched[1].Instance.ID = last.arg.ID
             /\ last.sched[1].Instance.Type = last.arg.Type
             /\ last.sched[1].Instance.HostID = last.arg.HostID

\* C7 witness: RemoveInstance of a complete instance reference handed one
\* delete request to the Scheduler and returned success.
C7_Witness ==
    /\ last.op = "RemoveInstance"
    /\ last.arg.ID # "" /\ last.arg.HostID # "" /\ last.arg.Type # InstanceTypeNone
    /\ Len(last.sched) = 1
    /\ last.sched[1].Action = ScheduleActionDeleteInstance
    /\ last.out = "ok"

\* C8: CreateVolume for a name that is persisted returns the already-exists
\* error and leaves the stored record as it was, whatever the lookup yields.
C8_CreateExistingRefused ==
    (last.op = "CreateVolume" /\ last.pre # Nil) =>
        /\ last.out = "err"
        /\ Cause(last.err) = "volume already exists"
        /\ store[last.name] = last.pre

\* C9: UpdateVolume for a name with no persisted record returns an error and
\* writes nothing.
C9_UpdateMissingRefused ==
    (last.op = "UpdateVolume" /\ last.pre = Nil) =>
        /\ last.out = "err"
        /\ store[last.name] = Nil

\* Every caller made an UpdateVolume call and has returned.
AllUpdatesReturned ==
    \A p \in Procs : req[p].op = "UpdateVolume" /\ pc[p] = "done"

\* C10: once concurrent UpdateVolume calls on one name have all returned, and
\* some of them wrote, the stored record is, as a whole, the input of the call
\* that wrote last.
C10_LastWriterWins ==
    (AllUpdatesReturned /\ writes # <<>>) =>
        store["v1"] = req[writes[Len(writes)]].volume

\* C10 witness: two UpdateVolume calls with different inputs both wrote, and
\* the record stored is the input of the second writer.
C10_Witness ==
    /\ AllUpdatesReturned
    /\ Len(writes) >= 2
    /\ req[writes[1]].volume # req[writes[Len(writes)]].volume
    /\ store["v1"] = req[writes[Len(writes)]].volume

\* MarkBadReplica was called on a persisted volume.
MarkedPersisted == last.op = "MarkBadReplica" /\ last.pre # Nil

\* The stored record is last.pre but for the BadTimestamp of the entries named
\* as the replica passed in.
SameButStamp ==
    LET v == store[last.name] IN
    /\ v # Nil
    /\ v.Name = last.pre.Name
    /\ v.Size = last.pre.Size
    /\ v.LonghornImage = last.pre.LonghornImage
    /\ DOMAIN v.Replicas = DOMAIN last.pre.Replicas
    /\ \A k \in DOMAIN v.Replicas :
          IF k \in MarkTargets(last.pre, last.arg)
          THEN /\ v.Replicas[k].Name = last.pre.Replicas[k].Name
               /\ v.Replicas[k].Address = last.pre.Replicas[k].Address
          ELSE v.Replicas[k] = last.pre.Replicas[k]

\* C11: MarkBadReplica(volumeName, r), run alone on a persisted volume that has
\* an entry named r.Name, leaves every other replica entry and the volume's
\* Name, Size and LonghornImage as they were stored, and, its store calls
\* succeeding, returns success with that entry's BadTimestamp non-zero.
C11_MarkStampsOnlyTheEntry ==
    (MarkedPersisted /\ MarkTargets(last.pre, last.arg) # {}) =>
        /\ SameButStamp
        /\ last.faults = {} =>
              /\ last.out = "ok"
              /\ \A k \in MarkTargets(last.pre, last.arg) :
                    store[last.name].Replicas[k].BadTimestamp # ZeroTime

\* C11 witness: MarkBadReplica stamped r1 of a stored volume with the replicas
\* r1 and r2, and r2 is as it was.
C11_Witness ==
    /\ MarkedPersisted
    /\ last.out = "ok"
    /\ last.arg.Name = "r1"
    /\ DOMAIN last.pre.Replicas = {"r1", "r2"}
    /\ last.pre.Replicas["r1"].BadTimestamp = ZeroTime
    /\ store[last.name].Replicas["r1"].BadTimestamp # ZeroTime
    /\ store[last.name].Replicas["r2"] = last.pre.Replicas["r2"]

\* C12: MarkBadReplica for a volume name with no persisted record, whether the
\* lookup reports the absence as an error or as an empty result, returns an
\* error and writes nothing.
C12_MarkMissingRefused ==
    (last.op = "MarkBadReplica" /\ last.pre = Nil) =>
        /\ last.out = "err"
        /\ store[last.name] = Nil

\* C13: once a UUID has been generated and written to the UUID file, every
\* later Register that succeeds, in the same or a later process and whatever
\* the read of the file yields, establishes that UUID as the current host, and
\* the machine has at most one Host record published.
C13_RegisterKeepsIdentity ==
    /\ (last.op = "Register" /\ last.pre.exists /\ last.out = "ok") =>
          last.val.UUID = last.pre.data
    /\ Cardinality({ x.UUID : x \in identity.published }) <= 1

\* CreateVolume was called for a name with no persisted record.
CreatedAbsent == last.op = "CreateVolume" /\ last.pre = Nil

\* C14: for a volume name not yet persisted, CreateVolume(v), its write to the
\* store succeeding, returns success and v, a GetVolume of the name made next
\* returns a record equal to v, and CreateVolume made no Scheduler call and no
\* container runtime call.
C14_CreateThenGet ==
    (CreatedAbsent /\ "set" \notin last.faults) =>
        /\ last.out = "ok"
        /\ last.val = last.arg
        /\ GetVolume(store, last.name, FALSE) = [v |-> last.arg, err |-> NoErr]
        /\ last.sched = <<>>
        /\ last.calls = <<>>

\* C14 witness: CreateVolume persisted a volume with two replicas under a name
\* that had no record, whose lookup reported the absence as an empty result.
C14_Witness ==
    /\ CreatedAbsent
    /\ last.faults = {}
    /\ last.out = "ok"
    /\ DOMAIN last.arg.Replicas = {"r1", "r2"}
    /\ store[last.name] = last.arg

\* The start step after the create at call i failed and the remove that
\* cleans up the created container failed too.
CleanupFailedAt(i) ==
    /\ StartStepFailedAt(i)
    /\ AfterStartStep(i) <= Len(Calls)
    /\ Calls[AfterStartStep(i)].op = "remove"
    /\ ~Calls[AfterStartStep(i)].ok

\* The messages of an error, outermost first.
Messages(err) == { err[j] : j \in 1..Len(err) }

\* C15: when the start step of createController or createReplica fails and the
\* remove that cleans up the created container fails as well, the call returns
\* an error, and it is the start failure wrapped as a failure to start the
\* container: the failure of the remove is no part of it.
C15_StartFailureNotMasked ==
    \A i \in 1..Len(Calls) :
        CleanupFailedAt(i) =>
            /\ last.out = "err"
            /\ Cause(last.err) =
                  IF Calls[i + 1].ok THEN "docker: inspect failed" ELSE "docker: start failed"
            /\ Messages(last.err) \cap
                  {"fail to start controller container", "fail to start replica container"} # {}
            /\ Messages(last.err) \cap {"docker: remove failed", "Fail to remove instance"} = {}

\* C15 witness: createController created a container, the start failed, the
\* remove failed too and left the container, and the start failure came back.
C15_Witness ==
    /\ last.handler = "createController"
    /\ Len(Calls) = 3
    /\ CleanupFailedAt(1)
    /\ ~Calls[2].ok
    /\ containers[Calls[1].id].present
    /\ last.out = "err"
    /\ Cause(last.err) = "docker: start failed"

\* C16: createController makes its calls in the order create, start (with the
\* inspection that ends it), API wait, device wait; the API wait is made only
\* after the start step succeeded and the device wait only after the API wait
\* succeeded; it returns success only when both waits succeeded, and then the
\* Instance's address is http://<inspected address>:9501.
C16_ControllerBarriers ==
    last.handler = "createController" =>
        /\ \A i \in 1..Len(Calls) :
              /\ Calls[i].op = "create" => i = 1
              /\ Calls[i].op = "start" => (i = 2 /\ Calls[1].op = "create" /\ Calls[1].ok)
              /\ Calls[i].op = "waitAPI" =>
                    /\ i = 4
                    /\ Calls[2].op = "start" /\ Calls[2].ok
                    /\ Calls[3].op = "inspect" /\ Calls[3].ok
              /\ Calls[i].op = "waitDevice" =>
                    (i = 5 /\ Calls[4].op = "waitAPI" /\ Calls[4].ok)
        /\ last.out = "ok" =>
              /\ Len(Calls) = 5
              /\ Calls[4].op = "waitAPI" /\ Calls[4].ok
              /\ Calls[5].op = "waitDevice" /\ Calls[5].ok
              /\ last.val.Address = "http://" \o Calls[3].detail.IPAddress \o ":9501"
              /\ Calls[4].id = last.val.Address \o "/v1"

\* C16 witness: createController succeeded after both waits, with the rewritten
\* address of the container it created.
C16_Witness ==
    /\ last.handler = "createController"
    /\ last.out = "ok"
    /\ Len(Calls) = 5
    /\ Calls[5].op = "waitDevice" /\ Calls[5].ok
    /\ last.val.Address = "http://" \o containers[Calls[1].id].ip \o ":9501"

\* C17: whenever createReplica returns success, the Instance it returns has
\* Running = true, as the inspection of the container reported it.
C17_ReplicaSuccessIsRunning ==
    (last.handler = "createReplica" /\ last.out = "ok") => last.val.Running

\* Every concurrent caller calls MarkBadReplica: the volume has no other writer.
OnlyMarkers == \A p \in Procs : req[p].op = "MarkBadReplica"

\* The stored record of "v1" shows entry k marked bad.
MarkedBad(st, k) ==
    /\ st["v1"] # Nil
    /\ k \in DOMAIN st["v1"].Replicas
    /\ st["v1"].Replicas[k].BadTimestamp # ZeroTime

\* C18: in every interleaving of concurrent MarkBadReplica calls on one volume,
\* with no other writer, an entry the stored record shows with a non-zero
\* BadTimestamp has a non-zero BadTimestamp in every later stored state.
C18_MarkNeverCleared ==
    [][OnlyMarkers => \A k \in ReplicaNames : MarkedBad(store, k) => MarkedBad(store', k)]_vars

\* C19: MarkBadReplica(volumeName, r) on a persisted volume with no entry named
\* r.Name leaves the stored record equal to what it was, and, its store calls
\* succeeding, returns success.
C19_MarkUnknownIsNoOp ==
    (MarkedPersisted /\ MarkTargets(last.pre, last.arg) = {}) =>
        /\ store[last.name] = last.pre
        /\ last.faults = {} => last.out = "ok"

\* C19 witness: MarkBadReplica for r2 returned success on a stored volume whose
\* only replica is r1, which was marked bad before, and the record is as it was.
C19_Witness ==
    /\ MarkedPersisted
    /\ last.arg.Name = "r2"
    /\ DOMAIN last.pre.Replicas = {"r1"}
    /\ last.pre.Replicas["r1"].BadTimestamp # ZeroTime
    /\ last.out = "ok"
    /\ store[last.name] = last.pre

\* Every concurrent caller calls CreateVolume, for a name that had no record.
OnlyCreators ==
    /\ \A p \in Procs : req[p].op = "CreateVolume"
    /\ last.pre = Nil

\* The callers that returned success.
Succeeded == { p \in Procs : loc[p].out = "ok" }

\* C20: of the concurrent CreateVolume calls for one name that had no record,
\* at most one returns success, and once all have returned the stored record is
\* the input of the one that succeeded.
C20_CreateExclusive ==
    OnlyCreators =>
        /\ Cardinality(Succeeded) <= 1
        /\ (\A q \in Procs : pc[q] = "done") =>
              \A p \in Succeeded : store[req[p].name] = req[p].volume

====
